---------------------------- MODULE Spec2Model ----------------------------
(***************************************************************************)
(* Model of azisaka/deco:                                                  *)
(*   - the Editor Form Bridge hook useEditorOperations (editor part), and  *)
(*   - the development-time manifest builder dev.ts (dev part).            *)
(* The two parts share no state; each has its own specification            *)
(* (SpecEditor and SpecSave for the hook, SpecDev for dev.ts) that keeps   *)
(* the other part's variables fixed.                                       *)
(***************************************************************************)
EXTENDS Integers, Sequences, FiniteSets, TLC

\* ------------------------------------------------------------------------
\* Bounds of the model
\* ------------------------------------------------------------------------
\* longest initial component list handed to the hook
MaxInit == 2
\* longest array (reference list, form-values list) an operation may produce
MaxLen == MaxInit + 1
\* number of reorder / remove / add calls in one page life
MaxOps == 2
\* number of saveProps invocations in one page life
MaxSaves == 2
\* number of dev runs (process starts that share the environment variable)
MaxRuns == 2

VARIABLES
  \* ---- editor part ----
  initialComponents,  \* the hook's `components` argument as first passed
  current,            \* the array componentsRef.current points to
  components,         \* the array captured by `const components` at the last render
  same,               \* TRUE iff `components` and componentsRef.current are one object
  formValues,         \* the field array of the form controller (key "components")
  renderPending,      \* a state update of the field array has scheduled a re-render
  saves,              \* one record per saveProps invocation
  reloads,            \* number of reloadPage() calls
  pageAlive,          \* FALSE once document.location.reload() has run
  ops,                \* number of reorder / remove / add calls so far
  \* ---- dev part ----
  env,                \* FRSH_DEV_PREVIOUS_MANIFEST (<<>> when unset)
  genFile,            \* deco.gen.ts on disk
  pc,                 \* position of the dev() run
  runs,               \* number of dev runs started
  currentManifest,    \* dev(): currentManifest
  newManifest,        \* dev(): newManifest
  exportsSchema,      \* the modules on disk that export `schema`
  loads,              \* componentSchemasPromises with their state
  done,               \* completion order of the loads (indices into loads)
  runLog              \* what happened in the current run

edVars == <<initialComponents, current, components, same, formValues,
            renderPending, saves, reloads, pageAlive, ops>>
devVars == <<env, genFile, pc, runs, currentManifest, newManifest,
             exportsSchema, loads, done, runLog>>
vars == <<edVars, devVars>>

\* ========================================================================
\* EDITOR PART (useEditorOperations)
\* ========================================================================

ComponentNames == {"Hero", "Footer"}
\* a property bag is a set of <<key, value>> pairs
EmptyBag == {}
BagValues == {EmptyBag, {<<"title", "Hi">>}}
ObjectKeys(bag) == {kv[1] : kv \in bag}

\* optional props of a PageComponentData
NoProps == [present |-> FALSE, bag |-> EmptyBag]
SomeProps(b) == [present |-> TRUE, bag |-> b]
PropsValues == {NoProps} \cup {SomeProps(b) : b \in BagValues}

\* `undefined` read from / stored into an array slot.  obj is the identity
\* of the JavaScript object (0 for undefined), not a field of the program.
UndefinedComponent == [def |-> FALSE, obj |-> 0, component |-> "", props |-> NoProps]
UndefinedValue == [def |-> FALSE, owner |-> 0, bag |-> EmptyBag]

\* A JavaScript array: its elements (index 0 is items[1]) and the property
\* "-1", the only non-element property the handlers can write.
JsArray(items, undef) == [items |-> items, m1 |-> undef]

ArrGet(a, i, undef) ==
  IF i >= 0 /\ i < Len(a.items) THEN a.items[i + 1]
  ELSE IF i = -1 THEN a.m1
  ELSE undef

\* a[i] = v : writing at or past the length extends the array
ArrSet(a, i, v, undef) ==
  IF i >= 0 /\ i < Len(a.items) THEN [a EXCEPT !.items[i + 1] = v]
  ELSE IF i >= Len(a.items)
    THEN [a EXCEPT !.items =
            [k \in 1..(i + 1) |->
               IF k <= Len(a.items) THEN a.items[k]
               ELSE IF k = i + 1 THEN v ELSE undef]]
  ELSE IF i = -1 THEN [a EXCEPT !.m1 = v]
  ELSE a

\* ---- pure functions ---------------------------------------------------

\* a form value: a property bag, or undefined (def = FALSE)
DefinedValue(b) == [def |-> TRUE, bag |-> b]

\* component.props || {}
mapComponentsToFormData(cs) ==
  [i \in 1..Len(cs) |->
     DefinedValue(IF cs[i].props.present THEN cs[i].props.bag ELSE EmptyBag)]

\* the reconciliation without the emptiness check
propsOfFormValueNoCheck(bag) == SomeProps(bag)

\* props: Object.keys(props).length === 0 ? undefined : props
propsOfFormValue(bag) ==
  IF Cardinality(ObjectKeys(bag)) = 0 THEN NoProps ELSE SomeProps(bag)

\* formData: sequence of [def, bag]; the result keeps each component's
\* identifier and takes the props from the form data at the same index
mapFormDataToComponents(formData, currentComponents) ==
  [i \in 1..Len(currentComponents) |->
     [component |-> currentComponents[i].component,
      props |-> propsOfFormValue(formData[i].bag)]]

\* the forEach body throws a TypeError when it destructures an undefined
\* component or calls Object.keys on an undefined form value
mapFormDataToComponentsThrows(formData, currentComponents) ==
  \E i \in 1..Len(currentComponents) :
     \/ ~currentComponents[i].def
     \/ i > Len(formData)
     \/ ~formData[i].def

\* ---- the field array of the form library (useFieldArray) ---------------
\* swap, remove and append act on the library's values array, a JavaScript
\* array: swap exchanges two slots by assignment (so an index at or past the
\* length extends the array with undefined), remove splices one slot out,
\* append pushes.

\* swap(indexA, indexB): exchanges the two slots of the values array
fieldSwap(f, indexA, indexB) ==
  LET a == ArrGet(f, indexA, UndefinedValue)
      b == ArrGet(f, indexB, UndefinedValue)
  IN ArrSet(ArrSet(f, indexA, b, UndefinedValue), indexB, a, UndefinedValue)

\* s without its element at 0-based index i (s itself when i is no index of s)
RemoveAt(s, i) ==
  IF i >= 0 /\ i < Len(s)
    THEN [k \in 1..(Len(s) - 1) |-> IF k <= i THEN s[k] ELSE s[k + 1]]
    ELSE s

\* remove(index): drops the slot at index; an index past the end drops nothing
fieldRemove(f, index) == [f EXCEPT !.items = RemoveAt(f.items, index)]

\* append(value)
fieldAppend(f, v) == [f EXCEPT !.items = Append(f.items, v)]

\* methods.getValues("components")
getValues(f) == [i \in 1..Len(f.items) |-> [def |-> f.items[i].def, bag |-> f.items[i].bag]]

\* ---- the handlers as functions of the editor state ----------------------
\* e = [current, components, same, formValues]

newPosOf(dir, pos) == IF dir = "prev" THEN pos - 1 ELSE pos + 1

\* the exchange without the temporary: components[pos] is read back after
\* components[newPos] was overwritten
swapComponentsNoTemp(a, pos, newPos) ==
  LET a1 == ArrSet(a, newPos, ArrGet(a, pos, UndefinedComponent), UndefinedComponent)
  IN ArrSet(a1, pos, ArrGet(a1, newPos, UndefinedComponent), UndefinedComponent)

\* const prevComp = components[newPos];
\* components[newPos] = components[pos]; components[pos] = prevComp;
swapComponents(a, pos, newPos) ==
  LET prevComp == ArrGet(a, newPos, UndefinedComponent)
  IN ArrSet(ArrSet(a, newPos, ArrGet(a, pos, UndefinedComponent), UndefinedComponent),
            pos, prevComp, UndefinedComponent)

\* if (newPos < 0 || newPos >= components.length) return;
changeOrderReturnsEarly(e, dir, pos) ==
  newPosOf(dir, pos) < 0 \/ newPosOf(dir, pos) >= Len(e.components.items)

changeOrder(e, dir, pos) ==
  IF changeOrderReturnsEarly(e, dir, pos) THEN e
  ELSE LET c2 == swapComponents(e.components, pos, newPosOf(dir, pos))
       IN [e EXCEPT !.components = c2,
                    !.current = IF e.same THEN c2 ELSE @,
                    !.formValues = fieldSwap(@, pos, newPosOf(dir, pos))]

\* componentsRef.current = componentsRef.current.filter((_, index) => index !== removedIndex)
filterIndex(a, removedIndex) ==
  JsArray(RemoveAt(a.items, removedIndex), UndefinedComponent)

removeComponent(e, removedIndex) ==
  [e EXCEPT !.current = filterIndex(@, removedIndex),
            !.same = FALSE,
            !.formValues = fieldRemove(@, removedIndex)]

\* _components.push({ component: componentName })
pushComponent(a, componentName, obj) ==
  [a EXCEPT !.items = Append(@, [def |-> TRUE, obj |-> obj,
                                 component |-> componentName, props |-> NoProps])]

addComponent(e, componentName, obj) ==
  LET c2 == pushComponent(e.current, componentName, obj)
  IN [e EXCEPT !.current = c2,
               !.components = IF e.same THEN c2 ELSE @,
               !.formValues = fieldAppend(@, [def |-> TRUE, owner |-> obj, bag |-> EmptyBag])]

Editor == [current |-> current, components |-> components, same |-> same,
           formValues |-> formValues]

\* identities of the objects some array still holds
liveObjs ==
  {current.items[i].obj : i \in 1..Len(current.items)}
    \cup {components.items[i].obj : i \in 1..Len(components.items)}
    \cup {formValues.items[i].owner : i \in 1..Len(formValues.items)}
    \cup {current.m1.obj, components.m1.obj, formValues.m1.owner}

\* identity of the object literal { component: componentName }: one no
\* live object has
freshObj == CHOOSE n \in 1..(3 * MaxLen + 4) : n \notin liveObjs

Fits(e) ==
  /\ Len(e.current.items) <= MaxLen
  /\ Len(e.components.items) <= MaxLen
  /\ Len(e.formValues.items) <= MaxLen

\* ---- initial state -------------------------------------------------------

Directions == {"prev", "next"}
Positions == (-1)..MaxLen
RemoveIndexes == 0..MaxLen

RECURSIVE SeqsUpTo(_, _)
SeqsUpTo(S, n) ==
  IF n = 0 THEN {<<>>}
  ELSE LET shorter == SeqsUpTo(S, n - 1)
       IN shorter \cup {Append(s, x) : s \in {t \in shorter : Len(t) = n - 1}, x \in S}

\* the component lists the page can hand to the hook; object i has identity i
InitialLists ==
  {[i \in 1..Len(s) |-> [def |-> TRUE, obj |-> i,
                         component |-> s[i][1], props |-> s[i][2]]] :
     s \in SeqsUpTo(ComponentNames \X PropsValues, MaxInit)}

\* useForm({defaultValues: {components: mapComponentsToFormData(initialComponents)}})
defaultValues(cs) ==
  LET data == mapComponentsToFormData(cs)
  IN JsArray([i \in 1..Len(cs) |->
                [def |-> data[i].def, owner |-> cs[i].obj, bag |-> data[i].bag]],
             UndefinedValue)

\* a manifest with nothing in it
EmptyManifest == [routes |-> <<>>, islands |-> <<>>, components |-> <<>>, schemas |-> <<>>]

\* deco.gen.ts does not exist
NoFile == [exists |-> FALSE, formatted |-> FALSE, manifest |-> EmptyManifest]

\* nothing has happened in the run yet; previous is the snapshot the run
\* before persisted (EmptyManifest when there is none)
FreshLog(previous) ==
  [previous |-> previous, decided |-> FALSE, generateCalled |-> FALSE,
   formatFailed |-> "no", written |-> FALSE]

\* no dev run has started: the variable is unset and nothing is generated
DevIdle ==
  /\ env = <<>>
  /\ genFile = NoFile
  /\ pc = "idle"
  /\ runs = 0
  /\ currentManifest = EmptyManifest
  /\ newManifest = EmptyManifest
  /\ exportsSchema = {}
  /\ loads = <<>>
  /\ done = <<>>
  /\ runLog = FreshLog(EmptyManifest)

InitEditor ==
  /\ initialComponents \in InitialLists
  /\ current = JsArray(initialComponents, UndefinedComponent)
  /\ components = current
  /\ same = TRUE
  /\ formValues = defaultValues(initialComponents)
  /\ renderPending = FALSE
  /\ saves = <<>>
  /\ reloads = 0
  /\ pageAlive = TRUE
  /\ ops = 0
  /\ DevIdle

\* ---- actions ---------------------------------------------------------------

SetEditor(e) ==
  /\ current' = e.current
  /\ components' = e.components
  /\ same' = e.same
  /\ formValues' = e.formValues

handleChangeOrder(dir, pos) ==
  /\ pageAlive
  /\ ops < MaxOps
  /\ ops' = ops + 1
  /\ Fits(changeOrder(Editor, dir, pos))
  /\ SetEditor(changeOrder(Editor, dir, pos))
  /\ renderPending' = (renderPending \/ ~changeOrderReturnsEarly(Editor, dir, pos))
  /\ UNCHANGED <<initialComponents, saves, reloads, pageAlive, devVars>>

handleRemoveComponent(removedIndex) ==
  /\ pageAlive
  /\ ops < MaxOps
  /\ ops' = ops + 1
  /\ SetEditor(removeComponent(Editor, removedIndex))
  /\ renderPending' = TRUE
  /\ UNCHANGED <<initialComponents, saves, reloads, pageAlive, devVars>>

handleAddComponent(componentName) ==
  /\ pageAlive
  /\ ops < MaxOps
  /\ ops' = ops + 1
  /\ Fits(addComponent(Editor, componentName, freshObj))
  /\ SetEditor(addComponent(Editor, componentName, freshObj))
  /\ renderPending' = TRUE
  /\ UNCHANGED <<initialComponents, saves, reloads, pageAlive, devVars>>

\* The re-render that swap, remove and append schedule (they set the field
\* array's state) runs the hook body again: const components =
\* componentsRef.current.  It is not part of the handler: handlers called one
\* after the other in the same task all run before it.
Render ==
  /\ pageAlive
  /\ renderPending
  /\ components' = current
  /\ same' = TRUE
  /\ renderPending' = FALSE
  /\ UNCHANGED <<initialComponents, current, formValues, saves, reloads,
                 pageAlive, ops, devVars>>

\* saveProps up to the await: the reconciled list is posted, unless
\* mapFormDataToComponents throws and the returned promise rejects at once
saveProps ==
  /\ pageAlive
  /\ Len(saves) < MaxSaves
  /\ saves' = Append(saves,
       IF mapFormDataToComponentsThrows(getValues(formValues), current.items)
         THEN [state |-> "threw", reloaded |-> FALSE, body |-> <<>>]
         ELSE [state |-> "inflight", reloaded |-> FALSE,
               body |-> mapFormDataToComponents(getValues(formValues), current.items)])
  /\ UNCHANGED <<initialComponents, current, components, same, formValues,
                 renderPending, reloads, pageAlive, ops, devVars>>

\* reloadPage = () => document.location.reload()
reloadPage ==
  /\ reloads' = reloads + 1
  /\ pageAlive' = FALSE

ResponseKinds == {"ok", "error", "opaqueredirect"}

\* a saveProps that reloads only after a successful response
fetchFulfilledChecksOk(s, response) ==
  /\ pageAlive
  /\ saves[s].state = "inflight"
  /\ saves' = [saves EXCEPT ![s].state = response, ![s].reloaded = (response = "ok")]
  /\ IF response = "ok" THEN reloadPage ELSE UNCHANGED <<reloads, pageAlive>>
  /\ UNCHANGED <<initialComponents, current, components, same, formValues,
                 renderPending, ops, devVars>>

\* the fetch promise is fulfilled (whatever the response): saveProps resumes
\* after the await and calls reloadPage()
fetchFulfilled(s, response) ==
  /\ pageAlive
  /\ saves[s].state = "inflight"
  /\ saves' = [saves EXCEPT ![s].state = response, ![s].reloaded = TRUE]
  /\ reloadPage
  /\ UNCHANGED <<initialComponents, current, components, same, formValues,
                 renderPending, ops, devVars>>

\* the fetch promise is rejected (network failure): the await throws, the
\* rest of saveProps does not run
fetchRejected(s) ==
  /\ pageAlive
  /\ saves[s].state = "inflight"
  /\ saves' = [saves EXCEPT ![s].state = "rejected"]
  /\ UNCHANGED <<initialComponents, current, components, same, formValues,
                 renderPending, reloads, pageAlive, ops, devVars>>

NextEditor ==
  \/ \E dir \in Directions, pos \in Positions : handleChangeOrder(dir, pos)
  \/ \E removedIndex \in RemoveIndexes : handleRemoveComponent(removedIndex)
  \/ \E componentName \in ComponentNames : handleAddComponent(componentName)
  \/ Render

\* the list operations of the hook
SpecEditor == InitEditor /\ [][NextEditor]_vars

NextSave ==
  \/ saveProps
  \/ \E s \in 1..Len(saves), response \in ResponseKinds : fetchFulfilled(s, response)
  \/ \E s \in 1..Len(saves) : fetchRejected(s)

\* Save on a freshly initialised editor
SpecSave == InitEditor /\ [][NextSave]_vars

\* ---- claims about the editor ---------------------------------------------

\* number of slots of sequence s that hold x
Count(s, x) == Cardinality({i \in 1..Len(s) : s[i] = x})

\* entry i of the form values is the bag of the component at index i
Aligned(cur, form) ==
  /\ Len(cur) = Len(form)
  /\ \A i \in 1..Len(cur) :
       /\ cur[i].def
       /\ form[i].def
       /\ form[i].owner = cur[i].obj

\* C1: after Initialize and any sequence of Reorder, Remove and Add calls the
\* reference list (componentsRef.current) and the form-values list have the
\* same length, and form-values entry i is the property bag of the component
\* at index i of the reference list.
C1_ListsAligned == Aligned(current.items, formValues.items)

\* C10: for every direction and every integer position, inside the list or
\* not, handleChangeOrder leaves the reference list with the same length and
\* the same multiset of entries, and puts no undefined entry into it.
C10_ReorderKeepsEntries ==
  \A dir \in Directions, pos \in Positions :
    LET after == changeOrder(Editor, dir, pos).current.items
    IN /\ Len(after) = Len(current.items)
       /\ \A i \in 1..Len(after) : Count(after, after[i]) = Count(current.items, after[i])
       /\ \A i \in 1..Len(after) : after[i].def \/ Count(current.items, UndefinedComponent) > 0

\* positions of the reference list whose neighbour in direction dir is in the list too
ValidPositions(dir) ==
  {pos \in 0..(Len(current.items) - 1) :
     newPosOf(dir, pos) >= 0 /\ newPosOf(dir, pos) < Len(current.items)}

C7_AddThenRemoveRestores ==
  \A componentName \in ComponentNames :
    LET added == addComponent(Editor, componentName, freshObj)
        removed == removeComponent(added, Len(current.items))
    IN /\ removed.current.items = current.items
       /\ removed.formValues.items = formValues.items

\* ---- claims about Save ------------------------------------------------------

Settled(s) == saves[s].state \in ResponseKinds \cup {"rejected"}

WithoutEmptyProps(L) ==
  [i \in 1..Len(L) |->
     [component |-> L[i].component,
      props |-> IF L[i].props.present /\ L[i].props.bag # EmptyBag
                  THEN L[i].props ELSE NoProps]]

\* C8: for every component list L, mapFormDataToComponents(
\* mapComponentsToFormData(L), L) has the length of L and, at every index,
\* the identifier and the props of L, except that empty or absent props come
\* back undefined; it is what Save posts from a freshly initialised editor.
C8_RoundTrip ==
  /\ mapFormDataToComponents(mapComponentsToFormData(initialComponents), initialComponents)
       = WithoutEmptyProps(initialComponents)
  /\ \A s \in 1..Len(saves) :
       saves[s].state # "threw" => saves[s].body = WithoutEmptyProps(initialComponents)

\* a list with an empty mapping, a non-empty mapping has been posted
C8_Witness ==
  /\ Len(initialComponents) = 2
  /\ initialComponents[1].props = SomeProps(EmptyBag)
  /\ initialComponents[2].props = SomeProps({<<"title", "Hi">>})
  /\ Len(saves) >= 1
  /\ saves[1].state = "inflight"
  /\ saves[1].body[1].props = NoProps
  /\ saves[1].body[2].props = initialComponents[2].props

\* ========================================================================
\* DEV PART (dev.ts)
\* ========================================================================

\* what collect(dir) can find under routes/ and islands/ (discovery order)
RouteLists == {<<"/index">>, <<"/index", "/about">>}
IslandLists == {<<"/B">>, <<"/A", "/B">>, <<"/B", "/A">>}
\* what the components folder can hold (no folder: the empty set)
ComponentFolders == {{}, {"/A", "/C"}}
\* the modules that can export `schema`
SchemaExports == {{<<"islands", "/A">>, <<"components", "/C">>},
                  {<<"islands", "/B">>, <<"components", "/A">>}}

\* the paths in ascending order
PathOrder == <<"/A", "/B", "/C">>

\* collectComponents: the files the walk finds, then components.sort()
collectComponents(folder) == SelectSeq(PathOrder, LAMBDA p : p \in folder)

\* componentNameFromPath (utils/component.ts): the file name without extension
componentNameFromPath(path) ==
  CASE path = "/A" -> "A"
    [] path = "/B" -> "B"
    [] path = "/C" -> "C"

\* JSON.stringify of the three path lists (schemas are not set yet): the
\* lists one after the other, with a separator between them
Separator == "|"
stringify(m) == m.routes \o <<Separator>> \o m.islands \o <<Separator>> \o m.components

\* index of the first separator of text
FirstSeparator(text) ==
  CHOOSE i \in 1..Len(text) :
    text[i] = Separator /\ \A j \in 1..(i - 1) : text[j] # Separator

\* JSON.parse of the text stringify wrote
parse(text) ==
  LET i == FirstSeparator(text)
      rest == SubSeq(text, i + 1, Len(text))
      j == FirstSeparator(rest)
  IN [routes |-> SubSeq(text, 1, i - 1),
      islands |-> SubSeq(rest, 1, j - 1),
      components |-> SubSeq(rest, j + 1, Len(rest)),
      schemas |-> <<>>]

\* arraysEqual that compares the lengths only
arraysEqualLengthOnly(a, b) == Len(a) = Len(b)

arraysEqual(a, b) ==
  IF Len(a) # Len(b) THEN FALSE
  ELSE \A i \in 1..Len(a) : a[i] = b[i]

manifestChanged(new, cur) ==
  \/ ~arraysEqual(new.routes, cur.routes)
  \/ ~arraysEqual(new.islands, cur.islands)
  \/ ~arraysEqual(new.components, cur.components)

\* componentSchemasPromises: one load per island, then one per component
\* whose path is not an island path
schemaLoads(islands, comps) ==
  [i \in 1..Len(islands) |-> [type |-> "islands", name |-> islands[i], state |-> "pending"]]
    \o SelectSeq([i \in 1..Len(comps) |->
                    [type |-> "components", name |-> comps[i], state |-> "pending"]],
                 LAMBDA l : \A k \in 1..Len(islands) : islands[k] # l.name)

\* what mapComponentToSchemaMap resolves to for a fulfilled load: the schema
\* entry, or undefined (has = FALSE) when the module exports no schema
schemaMapOf(l) ==
  [has |-> <<l.type, l.name>> \in exportsSchema,
   component |-> componentNameFromPath(l.name)]

\* the values in the order the loads completed
promiseAllByCompletion(ls, order) == [k \in 1..Len(order) |-> schemaMapOf(ls[order[k]])]

\* Promise.all: the values in the order of the promises
promiseAll(ls, order) == [k \in 1..Len(ls) |-> schemaMapOf(ls[k])]

\* componentsSchemas.filter(Boolean), as the list of component names
filterSchemas(values) ==
  LET kept == SelectSeq(values, LAMBDA v : v.has)
  IN [k \in 1..Len(kept) |-> kept[k].component]

RunEnded == pc \in {"idle", "done", "aborted"}

\* dev() up to the await of Promise.all: read the previous snapshot,
\* discover the files, persist the new snapshot, issue every module load
devStart(routes, islands, folder, exports) ==
  /\ RunEnded
  /\ runs < MaxRuns
  /\ runs' = runs + 1
  /\ currentManifest' = IF env # <<>> THEN parse(env) ELSE EmptyManifest
  /\ newManifest' = [routes |-> routes, islands |-> islands,
                     components |-> collectComponents(folder), schemas |-> <<>>]
  /\ env' = stringify(newManifest')
  /\ exportsSchema' = exports
  /\ loads' = schemaLoads(islands, collectComponents(folder))
  /\ done' = <<>>
  /\ runLog' = FreshLog(IF runs = 0 THEN EmptyManifest ELSE newManifest)
  /\ pc' = "loading"
  /\ UNCHANGED <<genFile, edVars>>

\* one module load is fulfilled
loadFulfilled(i) ==
  /\ pc = "loading"
  /\ loads[i].state = "pending"
  /\ loads' = [loads EXCEPT ![i].state = "fulfilled"]
  /\ done' = Append(done, i)
  /\ UNCHANGED <<env, genFile, pc, runs, currentManifest, newManifest, exportsSchema,
                 runLog, edVars>>

\* one module load is rejected: Promise.all rejects and dev() throws, the
\* process ends with its promises
loadRejected(i) ==
  /\ pc = "loading"
  /\ loads[i].state = "pending"
  /\ loads' = <<>>
  /\ done' = <<>>
  /\ pc' = "aborted"
  /\ UNCHANGED <<env, genFile, runs, currentManifest, newManifest, exportsSchema,
                 runLog, edVars>>

\* every load is fulfilled: collectComponentsSchemas returns, dev() compares
\* the lists and calls generate or skips it
schemasCollected ==
  /\ pc = "loading"
  /\ \A i \in 1..Len(loads) : loads[i].state = "fulfilled"
  /\ newManifest' = [newManifest EXCEPT !.schemas = filterSchemas(promiseAll(loads, done))]
  /\ runLog' = [runLog EXCEPT !.decided = TRUE,
                              !.generateCalled = manifestChanged(newManifest, currentManifest)]
  /\ pc' = IF manifestChanged(newManifest, currentManifest) THEN "format" ELSE "done"
  /\ loads' = <<>>
  /\ done' = <<>>
  /\ UNCHANGED <<env, genFile, runs, currentManifest, exportsSchema, edVars>>

\* format(): Deno.run throws, the formatter cannot be spawned
formatSpawnFails ==
  /\ pc = "format"
  /\ runLog' = [runLog EXCEPT !.formatFailed = "spawn"]
  /\ pc' = "aborted"
  /\ UNCHANGED <<env, genFile, runs, currentManifest, newManifest, exportsSchema,
                 loads, done, edVars>>

\* format(): the formatter dies before it has read its input, pipeTo rejects
formatPipeBreaks ==
  /\ pc = "format"
  /\ runLog' = [runLog EXCEPT !.formatFailed = "pipe"]
  /\ pc' = "aborted"
  /\ UNCHANGED <<env, genFile, runs, currentManifest, newManifest, exportsSchema,
                 loads, done, edVars>>

\* format() with the formatter running to its exit, then the rest of
\* generate(): the status is awaited and not looked at, whatever the
\* formatter printed is decoded, returned and written to deco.gen.ts
formatExits(success) ==
  /\ pc = "format"
  /\ runLog' = [runLog EXCEPT !.formatFailed = IF success THEN "no" ELSE "exit",
                              !.written = TRUE]
  /\ genFile' = [exists |-> TRUE, formatted |-> success, manifest |-> newManifest]
  /\ pc' = "done"
  /\ UNCHANGED <<env, runs, currentManifest, newManifest, exportsSchema, loads, done, edVars>>

EditorIdle ==
  /\ initialComponents = <<>>
  /\ current = JsArray(<<>>, UndefinedComponent)
  /\ components = current
  /\ same = TRUE
  /\ formValues = JsArray(<<>>, UndefinedValue)
  /\ renderPending = FALSE
  /\ saves = <<>>
  /\ reloads = 0
  /\ pageAlive = TRUE
  /\ ops = 0

InitDev == DevIdle /\ EditorIdle

NextDev ==
  \/ \E routes \in RouteLists, islands \in IslandLists, folder \in ComponentFolders,
        exports \in SchemaExports : devStart(routes, islands, folder, exports)
  \/ \E i \in 1..Len(loads) : loadFulfilled(i)
  \/ \E i \in 1..Len(loads) : loadRejected(i)
  \/ schemasCollected
  \/ formatSpawnFails
  \/ formatPipeBreaks
  \/ \E success \in BOOLEAN : formatExits(success)

\* dev runs that share the process environment and the project directory
SpecDev == InitDev /\ [][NextDev]_vars

\* ---- claims about dev ------------------------------------------------------

\* two lists differ in length, or in the value at some index
ListsDiffer(a, b) ==
  \/ Len(a) # Len(b)
  \/ \E i \in 1..Len(a) : i <= Len(b) /\ a[i] # b[i]

\* C4: in a dev run that gets to the comparison, generate is called if and
\* only if the new routes, islands or components list differs in length, order
\* or values from the list of the previous snapshot, no snapshot counting as
\* three empty lists; the schemas play no part.
C4_GenerateIffListsDiffer ==
  runLog.decided =>
    (runLog.generateCalled <=>
       \/ ListsDiffer(newManifest.routes, runLog.previous.routes)
       \/ ListsDiffer(newManifest.islands, runLog.previous.islands)
       \/ ListsDiffer(newManifest.components, runLog.previous.components))

\* a second run found the lists of the first and other schemas than the ones
\* in the generated file: generation was skipped
C4_Witness ==
  /\ runs = 2 /\ pc = "done"
  /\ runLog.decided /\ ~runLog.generateCalled
  /\ genFile.exists
  /\ genFile.manifest.schemas # newManifest.schemas
  /\ genFile.manifest.routes = newManifest.routes
  /\ genFile.manifest.islands = newManifest.islands
  /\ genFile.manifest.components = newManifest.components

\* C2: when the formatter process fails (non-zero exit, or it cannot be
\* spawned) the error reaches generate, the run aborts and deco.gen.ts is not
\* written in that run.
C2_FormatterFailureAborts ==
  runLog.formatFailed # "no" => pc = "aborted" /\ ~runLog.written

\* C9: once a dev run has ended, finished or aborted, the lists the persisted
\* snapshot holds are the lists the generated file on disk was written from.
C9_SnapshotNeverAheadOfFile ==
  (RunEnded /\ env # <<>>) =>
     /\ genFile.exists
     /\ genFile.manifest.routes = parse(env).routes
     /\ genFile.manifest.islands = parse(env).islands
     /\ genFile.manifest.components = parse(env).components

\* the modules in enumeration order: the islands, then the components whose
\* path is no island path
ModulesInOrder(islands, comps) ==
  [i \in 1..Len(islands) |-> <<"islands", islands[i]>>]
    \o SelectSeq([i \in 1..Len(comps) |-> <<"components", comps[i]>>],
                 LAMBDA m : \A k \in 1..Len(islands) : islands[k] # m[2])

ExpectedSchemas(islands, comps, exports) ==
  LET kept == SelectSeq(ModulesInOrder(islands, comps), LAMBDA m : m \in exports)
  IN [k \in 1..Len(kept) |-> componentNameFromPath(kept[k][2])]

AllFulfilled == pc = "loading" /\ \A i \in 1..Len(loads) : loads[i].state = "fulfilled"

\* C5: every module load is issued before any completes, and whatever the
\* order in which the loads complete, the result is one entry per module that
\* exports a schema, in enumeration order (islands, then the components that
\* are no islands).
C5_SchemasInEnumerationOrder ==
  LET expected == ExpectedSchemas(newManifest.islands, newManifest.components, exportsSchema)
      modules == ModulesInOrder(newManifest.islands, newManifest.components)
  IN /\ pc = "loading" =>
          /\ Len(loads) = Len(modules)
          /\ \A i \in 1..Len(loads) :
               /\ <<loads[i].type, loads[i].name>> = modules[i]
               /\ loads[i].state = "pending" <=> \A k \in 1..Len(done) : done[k] # i
     /\ AllFulfilled => filterSchemas(promiseAll(loads, done)) = expected
     /\ runLog.decided => newManifest.schemas = expected

\* three loads completed in the reverse of the order they were issued in; one
\* island exports no schema, one component is left out as it is an island
C5_Witness ==
  /\ AllFulfilled
  /\ done = <<3, 2, 1>>
  /\ newManifest.islands = <<"/B", "/A">>
  /\ newManifest.components = <<"/A", "/C">>
  /\ filterSchemas(promiseAll(loads, done)) = <<"A", "C">>
=============================================================================
